---------------------------- MODULE Spec2Model ----------------------------
(***************************************************************************)
(* Model of the retrieval-and-aggregation core of highlight-reels-maker:   *)
(*   - findHeavyRange (src/functions/search_context.py), the sliding-      *)
(*     window aggregation of the retrieved frame ids;                      *)
(*   - the bulk indexers (src/functions/build_video_index.py and           *)
(*     src/functions/build_audio_index.py): asyncio tasks behind a         *)
(*     semaphore, gathered by main, followed by the readiness poll;        *)
(*   - the frame describer (src/functions/generate_video_context.py):      *)
(*     keyframe extraction and the gathered describe_frame tasks, over     *)
(*     the folders the runs leave behind.                                  *)
(* Strings are sequences of one-character strings so that the path and     *)
(* number conversions of the code are computed, not assumed.               *)
(***************************************************************************)
EXTENDS Integers, Sequences, FiniteSets, Bags, TLC

VARIABLES
    videoMatches,   \* findHeavyRange: the ids of the matches, in order
    interval,       \* findHeavyRange: the window length argument
    outcome,        \* findHeavyRange: what the call ended in
    indexer,        \* which indexer program runs: "video" or "audio"
    run,            \* number of the current indexing run
    mainPc,         \* position of main() of the indexer
    taskPc,         \* position of every gathered store_frame task
    semValue,       \* asyncio.Semaphore: free slots
    waiters,        \* asyncio.Semaphore: tasks blocked in acquire, FIFO
    indexExists,    \* vector store: the named index exists
    indexReady,     \* vector store: describe_index(...).status["ready"]
    vectors,        \* vector store: bag of the entries of the index
    lastPoll,       \* result of the last readiness poll of this run
    created,        \* number of create_index requests issued so far
    failures,       \* number of external calls that have failed so far
    firstRun,       \* ids and entry count of the index after the first run
    genRun,         \* number of the current run of the frame describer
    genPc,          \* position of main() of the frame describer
    todo,           \* stems of the source videos the loop has not finished
    keyframeDirs,   \* stems whose video_keyframes folder exists, frames in it
    contextDirs,    \* stems whose video_context folder exists
    descriptions,   \* the description files written so far
    descPc,         \* position of every gathered describe_frame task
    descSem,        \* asyncio.Semaphore of describe: free slots
    descWaiters,    \* asyncio.Semaphore of describe: blocked tasks, FIFO
    genFailures     \* number of chat requests that have failed so far

vars == <<videoMatches, interval, outcome, indexer, run, mainPc, taskPc,
          semValue, waiters, indexExists, indexReady, vectors, lastPoll,
          created, failures, firstRun, genRun, genPc, todo, keyframeDirs,
          contextDirs, descriptions, descPc, descSem, descWaiters, genFailures>>

heavyVars == <<videoMatches, interval, outcome>>

indexVars == <<indexer, run, mainPc, taskPc, semValue, waiters, indexExists,
               indexReady, vectors, lastPoll, created, failures, firstRun>>

genVars == <<genRun, genPc, todo, keyframeDirs, contextDirs, descriptions,
             descPc, descSem, descWaiters, genFailures>>

-----------------------------------------------------------------------------
(* Bounds of the model *)

MaxMatches == 3     \* longest match list drawn (besides the fixed scenario)
MaxOrdinal == 6     \* greatest frame ordinal among the drawn match ids
MaxInterval == 4    \* greatest window length drawn
NumFrames == 5      \* frame descriptions in the indexed video_context folder
NumSegments == 2    \* transcript segments in the audio_transcripts folder
MaxRuns == 2        \* indexing runs in sequence
MaxFailures == 1    \* failing external calls over all the runs
NumKeyframes == 3   \* frames ffmpeg extracts from one source video

-----------------------------------------------------------------------------
(* Strings and paths *)

SetMax(S) == CHOOSE x \in S : \A y \in S : y <= x

Digits == <<"0", "1", "2", "3", "4", "5", "6", "7", "8", "9">>

IsDigit(c) == \E d \in 1..10 : Digits[d] = c

DigitVal(c) == (CHOOSE d \in 1..10 : Digits[d] = c) - 1

\* str(n) for a natural number
RECURSIVE DecStr(_)
DecStr(n) == IF n < 10 THEN <<Digits[n + 1]>>
             ELSE DecStr(n \div 10) \o <<Digits[(n % 10) + 1]>>

\* "%04d" % n
RECURSIVE ZeroPad(_, _)
ZeroPad(s, width) == IF Len(s) >= width THEN s ELSE ZeroPad(<<"0">> \o s, width)

Pad4(n) == ZeroPad(DecStr(n), 4)

\* int(s): defined on a non-empty run of decimal digits, ValueError otherwise
IntOk(s) == Len(s) > 0 /\ \A i \in 1..Len(s) : IsDigit(s[i])

RECURSIVE IntVal(_)
IntVal(s) == IF Len(s) = 0 THEN 0
             ELSE 10 * IntVal(SubSeq(s, 1, Len(s) - 1)) + DigitVal(s[Len(s)])

IsPrefixAt(s, p, i) == /\ i + Len(p) - 1 <= Len(s)
                       /\ SubSeq(s, i, i + Len(p) - 1) = p

\* s.replace(old, new): every non-overlapping occurrence, left to right
RECURSIVE ReplaceFrom(_, _, _, _)
ReplaceFrom(s, old, new, i) ==
    IF i > Len(s) THEN <<>>
    ELSE IF IsPrefixAt(s, old, i)
         THEN new \o ReplaceFrom(s, old, new, i + Len(old))
         ELSE <<s[i]>> \o ReplaceFrom(s, old, new, i + 1)

Replace(s, old, new) == ReplaceFrom(s, old, new, 1)

EndsWith(s, suffix) == /\ Len(s) >= Len(suffix)
                       /\ SubSeq(s, Len(s) - Len(suffix) + 1, Len(s)) = suffix

LastIndexOf(s, c) == LET I == {i \in 1..Len(s) : s[i] = c}
                     IN  IF I = {} THEN 0 ELSE SetMax(I)

\* Path(p).parent as a string
PathParent(p) == LET k == LastIndexOf(p, "/")
                 IN  IF k = 0 THEN <<".">>
                     ELSE IF k = 1 THEN <<"/">>
                     ELSE SubSeq(p, 1, k - 1)

\* Path(p).name
PathName(p) == SubSeq(p, LastIndexOf(p, "/") + 1, Len(p))

\* Path(p).stem: the name without its last suffix
PathStem(p) == LET k == LastIndexOf(p, "/")
                   d == LastIndexOf(p, ".")
               IN  IF k + 1 < d /\ d < Len(p) THEN SubSeq(p, k + 1, d - 1)
                   ELSE SubSeq(p, k + 1, Len(p))

\* Path(a, b) as a string
JoinPath(a, b) == a \o <<"/">> \o b

sVideoContext == <<"v", "i", "d", "e", "o", "_", "c", "o", "n", "t", "e", "x", "t">>
sAudioTranscripts == <<"a", "u", "d", "i", "o", "_", "t", "r", "a", "n", "s", "c",
                       "r", "i", "p", "t", "s">>
sSource == <<"s", "o", "u", "r", "c", "e">>
sFramePrefix == <<"f", "r", "a", "m", "e", "_">>
sTxt == <<".", "t", "x", "t">>
sJson == <<".", "j", "s", "o", "n">>
sMov == <<".", "M", "O", "V">>
sClip == <<"c", "l", "i", "p">>
sWorkspace == <<"w">>
sVideoKeyframes == <<"v", "i", "d", "e", "o", "_", "k", "e", "y", "f", "r", "a", "m",
                     "e", "s">>
sJpg == <<".", "j", "p", "g">>

\* The description file of frame n of a video: ffmpeg writes frame_%04d.jpg
\* into the keyframes folder and describe_frame writes <stem of frame>.txt
\* into its context folder.
FrameFile(contextDir, n) == JoinPath(contextDir, sFramePrefix \o Pad4(n) \o sTxt)

\* The transcript file of one segment: f"{transcript_workspace}/{start}-{end}.json"
SegmentFile(transcriptDir, start, end) ==
    JoinPath(transcriptDir, DecStr(start) \o <<"-">> \o DecStr(end) \o sJson)

-----------------------------------------------------------------------------
(* findHeavyRange *)

DefaultInterval == 4   \* interval: int = 4

\* line 29: the video a match id belongs to
VideoNameOf(itemID) == Replace(PathParent(itemID), sVideoContext, sSource)

\* line 30: the text handed to int()
OrdinalText(itemID) == Replace(PathStem(itemID), sFramePrefix, <<>>)

\* lines 26-30 raise ValueError when int() rejects the stem of some id
DecodeFails(matches) == \E k \in 1..Len(matches) : ~IntOk(OrdinalText(matches[k]))

\* the keys of frames in insertion order (order of first appearance)
RECURSIVE FrameKeys(_)
FrameKeys(matches) ==
    IF Len(matches) = 0 THEN <<>>
    ELSE LET front == FrameKeys(SubSeq(matches, 1, Len(matches) - 1))
             name == VideoNameOf(matches[Len(matches)])
         IN  IF \E k \in 1..Len(front) : front[k] = name
             THEN front ELSE Append(front, name)

\* frames[name]: the ordinals of the matches of one video, in match order;
\* the defaultdict answers a missing key with the empty list
RECURSIVE FramesOf(_, _)
FramesOf(matches, name) ==
    IF Len(matches) = 0 THEN <<>>
    ELSE LET front == FramesOf(SubSeq(matches, 1, Len(matches) - 1), name)
             m == matches[Len(matches)]
         IN  IF VideoNameOf(m) = name
             THEN Append(front, IntVal(OrdinalText(m))) ELSE front

\* lines 32-35: the scan for the video with the most matches.  videoCount
\* starts as the int 0 and line 35 stores the list val in it; the comparison
\* of line 34 between an int and a list raises TypeError.
RECURSIVE SelectVideo(_, _, _)
SelectVideo(matches, keys, acc) ==
    IF Len(keys) = 0 THEN acc
    ELSE IF acc.countIsList THEN [acc EXCEPT !.status = "TypeError"]
    ELSE LET val == FramesOf(matches, Head(keys))
         IN  IF Len(val) > acc.videoCount
             THEN SelectVideo(matches, Tail(keys),
                      [status |-> "ok", videoName |-> Head(keys),
                       videoCount |-> val, countIsList |-> TRUE])
             ELSE SelectVideo(matches, Tail(keys), acc)

\* line 32: videoName, videoCount = "", 0
SelectStart == [status |-> "ok", videoName |-> <<>>, videoCount |-> 0,
                countIsList |-> FALSE]

\* the last element in place of the greatest
SeqLast(list) == list[Len(list)]

SeqMax(list) == SetMax({list[k] : k \in 1..Len(list)})

\* max(default = 0) in place of max(): an empty list gives 0
PyMaxDefault(list) ==
    IF Len(list) = 0 THEN [status |-> "ok", value |-> 0]
    ELSE [status |-> "ok", value |-> SeqMax(list)]

\* max(frames[videoName]) of line 37: ValueError on an empty list
PyMax(list) ==
    IF Len(list) = 0 THEN [status |-> "ValueError"]
    ELSE [status |-> "ok", value |-> SeqMax(list)]

\* a buffer that files ordinal o under index o - 1
BufferShifted(ordinals, top) ==
    [o \in 0..top |->
        Cardinality({k \in 1..Len(ordinals) : ordinals[k] = o + 1})]

\* lines 37-39: buffer[o] for o in 0..max(ordinals)
BufferOf(ordinals, top) ==
    [o \in 0..top |->
        Cardinality({k \in 1..Len(ordinals) : ordinals[k] = o})]

BufferLen(buffer) == Cardinality(DOMAIN buffer)

\* sum(buffer[i : i + interval]); a slice stops at the end of the list
RECURSIVE SliceSum(_, _, _)
SliceSum(buffer, i, n) ==
    IF n = 0 \/ i >= BufferLen(buffer) THEN 0
    ELSE buffer[i] + SliceSum(buffer, i + 1, n - 1)

\* a test that lets a later window of equal sum replace the best one
BetterOrEqual(csm, count) == csm >= count

\* line 44: the test that makes window i the best one so far
Better(csm, count) == csm > count

\* line 42: the window starts the loop visits, range(1, len(buffer) - interval)
WindowStarts(buffer, n) == 1..(BufferLen(buffer) - n - 1)

\* lines 41-45: the loop, from window start i on
RECURSIVE Slide(_, _, _, _, _)
Slide(buffer, n, i, startIndex, count) ==
    IF i \notin WindowStarts(buffer, n) THEN startIndex
    ELSE LET csm == SliceSum(buffer, i, n)
         IN  IF Better(csm, count)
             THEN Slide(buffer, n, i + 1, i, csm)
             ELSE Slide(buffer, n, i + 1, startIndex, count)

findHeavyRange(matches, n) ==
    IF DecodeFails(matches) THEN [status |-> "ValueError"]
    ELSE LET sel == SelectVideo(matches, FrameKeys(matches), SelectStart)
         IN  IF sel.status = "TypeError" THEN [status |-> "TypeError"]
             ELSE LET ordinals == FramesOf(matches, sel.videoName)
                      top == PyMax(ordinals)
                  IN  IF top.status = "ValueError" THEN [status |-> "ValueError"]
                      ELSE LET buffer == BufferOf(ordinals, top.value)
                               startIndex == Slide(buffer, n, 1, 0, 0)
                           IN  [status |-> "returned",
                                videoName |-> sel.videoName \o sMov,
                                startIndex |-> startIndex,
                                endIndex |-> startIndex + n]

-----------------------------------------------------------------------------
(* The inputs findHeavyRange is applied to *)

sA == <<"a">>
sB == <<"b">>

\* the folder of the frame descriptions of one video of the workspace
ContextDir(stem) == JoinPath(JoinPath(sWorkspace, sVideoContext), stem)

\* ids as the video indexer stores them, for two videos
MatchIds == {FrameFile(ContextDir(stem), n) : stem \in {sA, sB}, n \in 1..MaxOrdinal}

\* the scenario of the heavy-range example: ordinals 1,1,2,3,3,3,4,10 of clip
ScenarioOrdinals == <<1, 1, 2, 3, 3, 3, 4, 10>>
ScenarioMatches == [k \in 1..Len(ScenarioOrdinals) |->
                        FrameFile(sClip, ScenarioOrdinals[k])]

MatchLists == UNION {[1..k -> MatchIds] : k \in 0..MaxMatches} \cup {ScenarioMatches}

Pending == [status |-> "pending"]

\* state of the frame describer while another program is studied
GenIdle ==
    /\ genRun = 0
    /\ genPc = "idle"
    /\ todo = <<>>
    /\ keyframeDirs = {}
    /\ contextDirs = {}
    /\ descriptions = {}
    /\ descPc = <<>>
    /\ descSem = 0
    /\ descWaiters = <<>>
    /\ genFailures = 0

\* state of the indexer while findHeavyRange is studied
IndexIdle ==
    /\ indexer = "video"
    /\ run = 0
    /\ mainPc = "idle"
    /\ taskPc = <<>>
    /\ semValue = 0
    /\ waiters = <<>>
    /\ indexExists = FALSE
    /\ indexReady = FALSE
    /\ vectors = EmptyBag
    /\ lastPoll = "none"
    /\ created = 0
    /\ failures = 0
    /\ firstRun = [ids |-> {}, count |-> 0, taken |-> FALSE]

InitHeavy ==
    /\ videoMatches \in MatchLists
    /\ interval \in 1..MaxInterval
    /\ outcome = Pending
    /\ IndexIdle
    /\ GenIdle

\* one call findHeavyRange(videoMatches, interval)
CallFindHeavyRange ==
    /\ outcome = Pending
    /\ outcome' = findHeavyRange(videoMatches, interval)
    /\ UNCHANGED <<videoMatches, interval>>
    /\ UNCHANGED indexVars
    /\ UNCHANGED genVars

NextHeavy == CallFindHeavyRange

SpecHeavy == InitHeavy /\ [][NextHeavy]_vars

-----------------------------------------------------------------------------
(* The identifier codec: ids as the indexers store them, decoded as        *)
(* findHeavyRange decodes them and written again as the generator names    *)
(* the artifact                                                            *)

\* the folder of the transcript segments of one video of the workspace
TranscriptDir(stem) == JoinPath(JoinPath(sWorkspace, sAudioTranscripts), stem)

\* ids of transcript segments: <start>-<end>.json with rounded seconds
SegmentSpans == {span \in (0..MaxOrdinal) \X (0..MaxOrdinal) : span[1] <= span[2]}

SegmentIds == {SegmentFile(TranscriptDir(stem), span[1], span[2]) :
                  stem \in {sA, sB}, span \in SegmentSpans}

\* ids of both artifact families
ProducedIds == MatchIds \cup SegmentIds

\* lines 28-30 for one id: the video name and the ordinal, or the ValueError
\* of int()
DecodeId(itemID) ==
    IF ~IntOk(OrdinalText(itemID)) THEN [status |-> "ValueError"]
    ELSE [status |-> "decoded",
          videoName |-> VideoNameOf(itemID),
          ordinal |-> IntVal(OrdinalText(itemID))]

\* the id of the description of frame ordinal of a video: the context folder
\* of the video and the name frame_%04d.txt
FormatId(videoName, ordinal) ==
    FrameFile(Replace(videoName, sSource, sVideoContext), ordinal)

InitCodec ==
    /\ videoMatches \in {<<itemID>> : itemID \in ProducedIds}
    /\ interval = DefaultInterval
    /\ outcome = Pending
    /\ IndexIdle
    /\ GenIdle

\* the id is decoded
Decode ==
    /\ outcome = Pending
    /\ outcome' = DecodeId(videoMatches[1])
    /\ UNCHANGED <<videoMatches, interval>>
    /\ UNCHANGED indexVars
    /\ UNCHANGED genVars

\* the decoded video name and ordinal are written as an id again
Encode ==
    /\ outcome.status = "decoded"
    /\ outcome' = [status |-> "encoded",
                   videoName |-> outcome.videoName,
                   ordinal |-> outcome.ordinal,
                   id |-> FormatId(outcome.videoName, outcome.ordinal)]
    /\ UNCHANGED <<videoMatches, interval>>
    /\ UNCHANGED indexVars
    /\ UNCHANGED genVars

NextCodec == Decode \/ Encode

SpecCodec == InitCodec /\ [][NextCodec]_vars

-----------------------------------------------------------------------------
(* The indexers: build_video_index.py and build_audio_index.py *)

SemaphoreSlots == 4   \* asyncio.Semaphore(4)

\* video_context/a/frame_0001.txt ..., written by the description generator
FrameFiles == {FrameFile(ContextDir(sA), n) : n \in 1..NumFrames}

\* audio_transcripts/a/0-3.json, 3-6.json ..., written by process_video
SegmentFiles == {SegmentFile(TranscriptDir(sA), 3 * (k - 1), 3 * k) : k \in 1..NumSegments}

WorkspaceFiles == FrameFiles \cup SegmentFiles

\* contextFolder of main
ContextFolder(kind) ==
    IF kind = "video" THEN JoinPath(sWorkspace, sVideoContext)
    ELSE JoinPath(sWorkspace, sAudioTranscripts)

\* contextFolder.rglob("*.txt")
RGlobTxt(folder) ==
    {f \in WorkspaceFiles : /\ IsPrefixAt(f, folder \o <<"/">>, 1)
                            /\ EndsWith(PathName(f), sTxt)}

\* the text of an artifact: the description of a frame, or the summary and
\* the raw text of a segment
FileContent(f) ==
    IF EndsWith(f, sJson)
    THEN [summary |-> <<"S">> \o PathStem(f), raw_text |-> <<"R">> \o PathStem(f)]
    ELSE [description |-> <<"D">> \o PathStem(f)]

\* the entry store_frame upserts for contextFile
EntryOf(kind, contextFile) ==
    IF kind = "video"
    THEN [id |-> contextFile,
          metadata |-> [description |-> FileContent(contextFile).description]]
    ELSE [id |-> contextFile,
          metadata |-> [summary |-> FileContent(contextFile).summary]]

\* an upsert that adds the entry and keeps the ones already stored
UpsertAppend(bag, entry) == bag (+) SetToBag({entry})

\* index.upsert: insert, or overwrite the entry with the same id
Upsert(bag, entry) ==
    LET kept == {e \in DOMAIN bag : e.id # entry.id}
    IN  [e \in kept |-> bag[e]] (+) SetToBag({entry})

EntryIds == {e.id : e \in BagToSet(vectors)}

EntryCount == BagCardinality(vectors)

\* a semaphore that never blocks
NeverLocked(value, queue) == FALSE

\* Semaphore.locked(): no free slot, or somebody is already queued
SemLocked(value, queue) == value = 0 \/ Len(queue) > 0

TasksAt(pcs) == {f \in DOMAIN taskPc : taskPc[f] \in pcs}

InFlight == TasksAt({"inflight"})

\* a has_index that never finds the index
HasIndexNever(exists) == FALSE

\* pc.has_index(name)
HasIndex(exists) == exists

\* a gather that returns as soon as one task has finished
GatherFirstDone(pcs) == \E f \in DOMAIN pcs : pcs[f] = "done"

\* await asyncio.gather(...) returns once every task has finished
GatherComplete(pcs) == \A f \in DOMAIN pcs : pcs[f] = "done"

\* a poll that never sees the index ready
StatusNeverReady(ready) == FALSE

\* pc.describe_index(name).status["ready"]
StatusReady(ready) == ready

NoSnapshot == [ids |-> {}, count |-> 0, taken |-> FALSE]

\* state of findHeavyRange while the indexers are studied
HeavyIdle ==
    /\ videoMatches = <<>>
    /\ interval = DefaultInterval
    /\ outcome = Pending

InitIndex ==
    /\ HeavyIdle
    /\ GenIdle
    /\ indexer \in {"video", "audio"}
    /\ run = 1
    /\ mainPc = "start"
    /\ taskPc = <<>>
    /\ semValue = SemaphoreSlots
    /\ waiters = <<>>
    /\ indexExists = FALSE
    /\ indexReady = FALSE
    /\ vectors = EmptyBag
    /\ lastPoll = "none"
    /\ created = 0
    /\ failures = 0
    /\ firstRun = NoSnapshot

\* main: has_index is false, create_index
CreateIndex ==
    /\ mainPc = "start"
    /\ ~HasIndex(indexExists)
    /\ indexExists' = TRUE
    /\ indexReady' = FALSE
    /\ created' = created + 1
    /\ mainPc' = "indexed"
    /\ UNCHANGED <<indexer, run, taskPc, semValue, waiters, vectors, lastPoll,
                   failures, firstRun>>
    /\ UNCHANGED heavyVars
    /\ UNCHANGED genVars

\* main: has_index is true, nothing to create
SkipCreateIndex ==
    /\ mainPc = "start"
    /\ HasIndex(indexExists)
    /\ mainPc' = "indexed"
    /\ UNCHANGED <<indexer, run, taskPc, semValue, waiters, indexExists,
                   indexReady, vectors, lastPoll, created, failures, firstRun>>
    /\ UNCHANGED heavyVars
    /\ UNCHANGED genVars

\* main: one store_frame task per discovered file, handed to gather
StartGather ==
    /\ mainPc = "indexed"
    /\ taskPc' = [f \in RGlobTxt(ContextFolder(indexer)) |-> "open"]
    /\ mainPc' = "gather"
    /\ UNCHANGED <<indexer, run, semValue, waiters, indexExists, indexReady,
                   vectors, lastPoll, created, failures, firstRun>>
    /\ UNCHANGED heavyVars
    /\ UNCHANGED genVars

\* store_frame: the file is read, the semaphore has a free slot and the
\* embedding request is sent
ReadAndAcquire(f) ==
    /\ mainPc = "gather"
    /\ taskPc[f] = "open"
    /\ ~SemLocked(semValue, waiters)
    /\ semValue' = semValue - 1
    /\ taskPc' = [taskPc EXCEPT ![f] = "inflight"]
    /\ UNCHANGED <<indexer, run, mainPc, waiters, indexExists, indexReady,
                   vectors, lastPoll, created, failures, firstRun>>
    /\ UNCHANGED heavyVars
    /\ UNCHANGED genVars

\* store_frame: the file is read, the semaphore is locked and the task queues
ReadAndWait(f) ==
    /\ mainPc = "gather"
    /\ taskPc[f] = "open"
    /\ SemLocked(semValue, waiters)
    /\ waiters' = Append(waiters, f)
    /\ taskPc' = [taskPc EXCEPT ![f] = "waiting"]
    /\ UNCHANGED <<indexer, run, mainPc, semValue, indexExists, indexReady,
                   vectors, lastPoll, created, failures, firstRun>>
    /\ UNCHANGED heavyVars
    /\ UNCHANGED genVars

\* a release that happens only on the successful way out of the block
ReleaseOnSuccess(f, pc) ==
    IF pc = "done" /\ Len(waiters) > 0
    THEN /\ taskPc' = [taskPc EXCEPT ![f] = pc, ![Head(waiters)] = "inflight"]
         /\ waiters' = Tail(waiters)
         /\ semValue' = semValue
    ELSE /\ taskPc' = [taskPc EXCEPT ![f] = pc]
         /\ waiters' = waiters
         /\ semValue' = IF pc = "done" THEN semValue + 1 ELSE semValue

\* Semaphore.release() by task f, which ends in position pc: the slot goes
\* to the first queued task, whose request is sent, or back to the semaphore
Release(f, pc) ==
    IF Len(waiters) > 0
    THEN /\ taskPc' = [taskPc EXCEPT ![f] = pc, ![Head(waiters)] = "inflight"]
         /\ waiters' = Tail(waiters)
         /\ semValue' = semValue
    ELSE /\ taskPc' = [taskPc EXCEPT ![f] = pc]
         /\ waiters' = waiters
         /\ semValue' = semValue + 1

\* store_frame: the embedding arrives, the slot is released, the upsert succeeds
EmbedAndUpsert(f) ==
    /\ mainPc = "gather"
    /\ taskPc[f] = "inflight"
    /\ Release(f, "done")
    /\ vectors' = Upsert(vectors, EntryOf(indexer, f))
    /\ UNCHANGED <<indexer, run, mainPc, indexExists, indexReady, lastPoll,
                   created, failures, firstRun>>
    /\ UNCHANGED heavyVars
    /\ UNCHANGED genVars

\* store_frame: the embedding request raises; the slot is released on the way out
EmbeddingFails(f) ==
    /\ mainPc = "gather"
    /\ taskPc[f] = "inflight"
    /\ Release(f, "embedFailed")
    /\ failures < MaxFailures
    /\ failures' = failures + 1
    /\ UNCHANGED <<indexer, run, mainPc, indexExists, indexReady, vectors,
                   lastPoll, created, firstRun>>
    /\ UNCHANGED heavyVars
    /\ UNCHANGED genVars

\* store_frame: the embedding arrives, the slot is released, the upsert raises
UpsertFails(f) ==
    /\ mainPc = "gather"
    /\ taskPc[f] = "inflight"
    /\ Release(f, "upsertFailed")
    /\ failures < MaxFailures
    /\ failures' = failures + 1
    /\ UNCHANGED <<indexer, run, mainPc, indexExists, indexReady, vectors,
                   lastPoll, created, firstRun>>
    /\ UNCHANGED heavyVars
    /\ UNCHANGED genVars

Failed == TasksAt({"embedFailed", "upsertFailed"})

\* main: gather re-raises the exception of a task, main ends with it and
\* asyncio.run cancels the tasks that are still pending before it returns
GatherRaises ==
    /\ mainPc = "gather"
    /\ Failed # {}
    /\ taskPc' = [f \in DOMAIN taskPc |->
                     IF taskPc[f] \in {"open", "waiting", "inflight"}
                     THEN "cancelled" ELSE taskPc[f]]
    /\ waiters' = <<>>
    /\ semValue' = semValue + Cardinality(InFlight)
    /\ mainPc' = "aborted"
    /\ UNCHANGED <<indexer, run, indexExists, indexReady, vectors, lastPoll,
                   created, failures, firstRun>>
    /\ UNCHANGED heavyVars
    /\ UNCHANGED genVars

\* main: every task has finished, gather returns
GatherReturns ==
    /\ mainPc = "gather"
    /\ GatherComplete(taskPc)
    /\ mainPc' = "poll"
    /\ UNCHANGED <<indexer, run, taskPc, semValue, waiters, indexExists,
                   indexReady, vectors, lastPoll, created, failures, firstRun>>
    /\ UNCHANGED heavyVars
    /\ UNCHANGED genVars

\* main: describe_index reports not ready, sleep one second
PollNotReady ==
    /\ mainPc = "poll"
    /\ ~StatusReady(indexReady)
    /\ lastPoll' = "notready"
    /\ UNCHANGED <<indexer, run, mainPc, taskPc, semValue, waiters, indexExists,
                   indexReady, vectors, created, failures, firstRun>>
    /\ UNCHANGED heavyVars
    /\ UNCHANGED genVars

\* main: describe_index reports ready, main returns
PollReady ==
    /\ mainPc = "poll"
    /\ StatusReady(indexReady)
    /\ lastPoll' = "ready"
    /\ mainPc' = "done"
    /\ firstRun' = IF run = 1
                    THEN [ids |-> EntryIds, count |-> EntryCount, taken |-> TRUE]
                    ELSE firstRun
    /\ UNCHANGED <<indexer, run, taskPc, semValue, waiters, indexExists,
                   indexReady, vectors, created, failures>>
    /\ UNCHANGED heavyVars
    /\ UNCHANGED genVars

\* the vector store finishes the initialisation of the index
BackendReady ==
    /\ indexExists
    /\ ~indexReady
    /\ indexReady' = TRUE
    /\ UNCHANGED <<indexer, run, mainPc, taskPc, semValue, waiters, indexExists,
                   vectors, lastPoll, created, failures, firstRun>>
    /\ UNCHANGED heavyVars
    /\ UNCHANGED genVars

\* the indexer is started again over the same workspace
Rerun ==
    /\ mainPc \in {"done", "aborted"}
    /\ run < MaxRuns
    /\ run' = run + 1
    /\ mainPc' = "start"
    /\ taskPc' = <<>>
    /\ semValue' = SemaphoreSlots
    /\ waiters' = <<>>
    /\ lastPoll' = "none"
    /\ UNCHANGED <<indexer, indexExists, indexReady, vectors, created, failures,
                   firstRun>>
    /\ UNCHANGED heavyVars
    /\ UNCHANGED genVars

NextIndex ==
    \/ CreateIndex
    \/ SkipCreateIndex
    \/ StartGather
    \/ \E f \in DOMAIN taskPc : ReadAndAcquire(f)
    \/ \E f \in DOMAIN taskPc : ReadAndWait(f)
    \/ \E f \in DOMAIN taskPc : EmbedAndUpsert(f)
    \/ \E f \in DOMAIN taskPc : EmbeddingFails(f)
    \/ \E f \in DOMAIN taskPc : UpsertFails(f)
    \/ GatherRaises
    \/ GatherReturns
    \/ PollNotReady
    \/ PollReady
    \/ BackendReady
    \/ Rerun

SpecIndex == InitIndex /\ [][NextIndex]_vars

\* a step of a run: main goes on, a file read ends, an embedding request or
\* an upsert ends (well or not), the backend finishes the index
Progress ==
    \/ CreateIndex
    \/ SkipCreateIndex
    \/ StartGather
    \/ \E f \in DOMAIN taskPc : ReadAndAcquire(f)
    \/ \E f \in DOMAIN taskPc : ReadAndWait(f)
    \/ \E f \in DOMAIN taskPc : EmbedAndUpsert(f)
    \/ \E f \in DOMAIN taskPc : EmbeddingFails(f)
    \/ \E f \in DOMAIN taskPc : UpsertFails(f)
    \/ GatherRaises
    \/ GatherReturns
    \/ PollReady
    \/ BackendReady

\* one run of an indexer, over a vector store that may already hold the index
InitRun ==
    /\ HeavyIdle
    /\ GenIdle
    /\ indexer \in {"video", "audio"}
    /\ run = 1
    /\ mainPc = "start"
    /\ taskPc = <<>>
    /\ semValue = SemaphoreSlots
    /\ waiters = <<>>
    /\ indexExists \in BOOLEAN
    /\ indexReady \in {FALSE, indexExists}
    /\ vectors = EmptyBag
    /\ lastPoll = "none"
    /\ created = 0
    /\ failures = 0
    /\ firstRun = NoSnapshot

NextRun == Progress \/ PollNotReady

\* the scheduling of a run whose external calls all end and whose backend
\* converges: as long as a step of the run is possible, one is taken
FairIndex == WF_vars(Progress)

SpecRunFair == InitRun /\ [][NextRun]_vars /\ FairIndex

-----------------------------------------------------------------------------
(* store_frame applied to one artifact *)

\* the indexer whose store_frame is handed the artifact
IndexerOf(contextFile) == IF EndsWith(contextFile, sJson) THEN "audio" ELSE "video"

\* one artifact of either family and an empty index
InitStore ==
    /\ videoMatches \in {<<contextFile>> : contextFile \in ProducedIds}
    /\ interval = DefaultInterval
    /\ outcome = Pending
    /\ indexer = IndexerOf(videoMatches[1])
    /\ run = 0
    /\ mainPc = "idle"
    /\ taskPc = <<>>
    /\ semValue = SemaphoreSlots
    /\ waiters = <<>>
    /\ indexExists = TRUE
    /\ indexReady = TRUE
    /\ vectors = EmptyBag
    /\ lastPoll = "none"
    /\ created = 0
    /\ failures = 0
    /\ firstRun = NoSnapshot
    /\ GenIdle

\* store_frame(contextFile): the file is read, its text is embedded and the
\* entry is upserted (the audio indexer waits for Enter on the way)
StoreFrame ==
    /\ outcome = Pending
    /\ outcome' = [status |-> "stored", content |-> FileContent(videoMatches[1])]
    /\ vectors' = Upsert(vectors, EntryOf(indexer, videoMatches[1]))
    /\ UNCHANGED <<videoMatches, interval, indexer, run, mainPc, taskPc,
                   semValue, waiters, indexExists, indexReady, lastPoll,
                   created, failures, firstRun>>
    /\ UNCHANGED genVars

NextStore == StoreFrame

SpecStore == InitStore /\ [][NextStore]_vars

-----------------------------------------------------------------------------
(* The frame describer: main, extract_frames, describe, describe_frame *)

DescribeSlots == 2   \* asyncio.Semaphore(2)

\* sourceFolder.glob("*.MOV"): the stems of the source videos, in loop order
SourceStems == <<sA, sB>>

\* Path(keyframesFolder, stem)
KeyframesFolder(stem) == JoinPath(JoinPath(sWorkspace, sVideoKeyframes), stem)

\* a frame ffmpeg writes: f"{workspace}/frame_%04d.jpg"
KeyframeFile(stem, n) ==
    JoinPath(KeyframesFolder(stem), sFramePrefix \o Pad4(n) \o sJpg)

\* workspace.glob("*.jpg") of the keyframes folder of a video
GlobJpg(dirs, stem) ==
    IF stem \in dirs THEN {KeyframeFile(stem, n) : n \in 1..NumKeyframes} ELSE {}

\* Path(workspace, frameFile.stem + ".txt")
DescriptionFile(workspace, frameFile) ==
    JoinPath(workspace, PathStem(frameFile) \o sTxt)

DescAt(pcs) == {f \in DOMAIN descPc : descPc[f] \in pcs}

DescInFlight == DescAt({"inflight"})

\* first run of the describer over a workspace that holds the source videos
InitDescribe ==
    /\ HeavyIdle
    /\ IndexIdle
    /\ genRun = 1
    /\ genPc = "start"
    /\ todo = <<>>
    /\ keyframeDirs = {}
    /\ contextDirs = {}
    /\ descriptions = {}
    /\ descPc = <<>>
    /\ descSem = 0
    /\ descWaiters = <<>>
    /\ genFailures = 0

\* main: the two root folders are made and the loop over the videos begins
GenStart ==
    /\ genPc = "start"
    /\ todo' = SourceStems
    /\ genPc' = "extract"
    /\ UNCHANGED <<genRun, keyframeDirs, contextDirs, descriptions, descPc,
                   descSem, descWaiters, genFailures>>
    /\ UNCHANGED <<heavyVars, indexVars>>

\* extract_frames: an existing keyframes folder is globbed as it is,
\* otherwise it is made and ffmpeg fills it
ExtractFrames ==
    /\ genPc = "extract"
    /\ todo # <<>>
    /\ keyframeDirs' = IF Head(todo) \in keyframeDirs THEN keyframeDirs
                       ELSE keyframeDirs \cup {Head(todo)}
    /\ genPc' = "describe"
    /\ UNCHANGED <<genRun, todo, contextDirs, descriptions, descPc, descSem,
                   descWaiters, genFailures>>
    /\ UNCHANGED <<heavyVars, indexVars>>

\* describe: the context folder of the video exists, return at once
DescribeSkip ==
    /\ genPc = "describe"
    /\ Head(todo) \in contextDirs
    /\ todo' = Tail(todo)
    /\ genPc' = "extract"
    /\ UNCHANGED <<genRun, keyframeDirs, contextDirs, descriptions, descPc,
                   descSem, descWaiters, genFailures>>
    /\ UNCHANGED <<heavyVars, indexVars>>

\* describe: the context folder is made, the semaphore is created and one
\* describe_frame task per keyframe is handed to gather
DescribeStart ==
    /\ genPc = "describe"
    /\ Head(todo) \notin contextDirs
    /\ contextDirs' = contextDirs \cup {Head(todo)}
    /\ descPc' = [f \in GlobJpg(keyframeDirs, Head(todo)) |-> "open"]
    /\ descSem' = DescribeSlots
    /\ descWaiters' = <<>>
    /\ genPc' = "gather"
    /\ UNCHANGED <<genRun, todo, keyframeDirs, descriptions, genFailures>>
    /\ UNCHANGED <<heavyVars, indexVars>>

\* describe_frame: the frame is read, the semaphore has a free slot and the
\* chat request is sent
DescReadAndAcquire(f) ==
    /\ genPc = "gather"
    /\ descPc[f] = "open"
    /\ ~SemLocked(descSem, descWaiters)
    /\ descSem' = descSem - 1
    /\ descPc' = [descPc EXCEPT ![f] = "inflight"]
    /\ UNCHANGED <<genRun, genPc, todo, keyframeDirs, contextDirs, descriptions,
                   descWaiters, genFailures>>
    /\ UNCHANGED <<heavyVars, indexVars>>

\* describe_frame: the frame is read, the semaphore is locked and the task queues
DescReadAndWait(f) ==
    /\ genPc = "gather"
    /\ descPc[f] = "open"
    /\ SemLocked(descSem, descWaiters)
    /\ descWaiters' = Append(descWaiters, f)
    /\ descPc' = [descPc EXCEPT ![f] = "waiting"]
    /\ UNCHANGED <<genRun, genPc, todo, keyframeDirs, contextDirs, descriptions,
                   descSem, genFailures>>
    /\ UNCHANGED <<heavyVars, indexVars>>

\* Semaphore.release() by describe_frame task f, which goes on to position pc
DescRelease(f, pc) ==
    IF Len(descWaiters) > 0
    THEN /\ descPc' = [descPc EXCEPT ![f] = pc, ![Head(descWaiters)] = "inflight"]
         /\ descWaiters' = Tail(descWaiters)
         /\ descSem' = descSem
    ELSE /\ descPc' = [descPc EXCEPT ![f] = pc]
         /\ descWaiters' = descWaiters
         /\ descSem' = descSem + 1

\* describe_frame: the chat response arrives and the slot is released
ChatReturns(f) ==
    /\ genPc = "gather"
    /\ descPc[f] = "inflight"
    /\ DescRelease(f, "writing")
    /\ UNCHANGED <<genRun, genPc, todo, keyframeDirs, contextDirs, descriptions,
                   genFailures>>
    /\ UNCHANGED <<heavyVars, indexVars>>

\* describe_frame: the chat request raises; the slot is released on the way out
ChatFails(f) ==
    /\ genPc = "gather"
    /\ descPc[f] = "inflight"
    /\ DescRelease(f, "failed")
    /\ genFailures < MaxFailures
    /\ genFailures' = genFailures + 1
    /\ UNCHANGED <<genRun, genPc, todo, keyframeDirs, contextDirs, descriptions>>
    /\ UNCHANGED <<heavyVars, indexVars>>

\* describe_frame: the description is written next to the others of the video
WriteDescription(f) ==
    /\ genPc = "gather"
    /\ descPc[f] = "writing"
    /\ descriptions' =
           descriptions \cup {DescriptionFile(ContextDir(Head(todo)), f)}
    /\ descPc' = [descPc EXCEPT ![f] = "done"]
    /\ UNCHANGED <<genRun, genPc, todo, keyframeDirs, contextDirs, descSem,
                   descWaiters, genFailures>>
    /\ UNCHANGED <<heavyVars, indexVars>>

\* describe: every task has finished, gather returns and the loop goes on
DescGatherReturns ==
    /\ genPc = "gather"
    /\ GatherComplete(descPc)
    /\ todo' = Tail(todo)
    /\ descPc' = <<>>
    /\ genPc' = "extract"
    /\ UNCHANGED <<genRun, keyframeDirs, contextDirs, descriptions, descSem,
                   descWaiters, genFailures>>
    /\ UNCHANGED <<heavyVars, indexVars>>

\* the process ends in the middle of describe: the pending tasks are
\* cancelled and those that hold a slot give it back
EndDescribeEarly ==
    /\ descPc' = <<>>
    /\ descWaiters' = <<>>
    /\ descSem' = descSem + Cardinality(DescInFlight)
    /\ genPc' = "aborted"
    /\ UNCHANGED <<genRun, todo, keyframeDirs, contextDirs, descriptions,
                   genFailures>>
    /\ UNCHANGED <<heavyVars, indexVars>>

\* describe: gather re-raises the exception of a task and main ends with it
DescGatherRaises ==
    /\ genPc = "gather"
    /\ DescAt({"failed"}) # {}
    /\ EndDescribeEarly

\* the run is interrupted while the frames of a video are described
Interrupt ==
    /\ genPc = "gather"
    /\ EndDescribeEarly

\* main: the loop has visited every source video
GenFinish ==
    /\ genPc = "extract"
    /\ todo = <<>>
    /\ genPc' = "done"
    /\ UNCHANGED <<genRun, todo, keyframeDirs, contextDirs, descriptions, descPc,
                   descSem, descWaiters, genFailures>>
    /\ UNCHANGED <<heavyVars, indexVars>>

\* the describer is started again over the same workspace
GenRerun ==
    /\ genPc \in {"done", "aborted"}
    /\ genRun < MaxRuns
    /\ genRun' = genRun + 1
    /\ genPc' = "start"
    /\ todo' = <<>>
    /\ UNCHANGED <<keyframeDirs, contextDirs, descriptions, descPc, descSem,
                   descWaiters, genFailures>>
    /\ UNCHANGED <<heavyVars, indexVars>>

NextDescribe ==
    \/ GenStart
    \/ ExtractFrames
    \/ DescribeSkip
    \/ DescribeStart
    \/ \E f \in DOMAIN descPc : DescReadAndAcquire(f)
    \/ \E f \in DOMAIN descPc : DescReadAndWait(f)
    \/ \E f \in DOMAIN descPc : ChatReturns(f)
    \/ \E f \in DOMAIN descPc : ChatFails(f)
    \/ \E f \in DOMAIN descPc : WriteDescription(f)
    \/ DescGatherReturns
    \/ DescGatherRaises
    \/ Interrupt
    \/ GenFinish
    \/ GenRerun

SpecDescribe == InitDescribe /\ [][NextDescribe]_vars

\* a run of either kind: an indexer or the frame describer
InitRuns == InitIndex \/ InitDescribe

NextRuns == NextIndex \/ NextDescribe

SpecRuns == InitRuns /\ [][NextRuns]_vars

-----------------------------------------------------------------------------
(* Properties of findHeavyRange *)

Called == outcome # Pending

\* the videos the matches belong to
MatchVideos == {VideoNameOf(videoMatches[k]) : k \in 1..Len(videoMatches)}

OneVideo == Cardinality(MatchVideos) = 1

TheVideo == CHOOSE v \in MatchVideos : TRUE

\* the matched ordinals of the only video
TheOrdinals == FramesOf(videoMatches, TheVideo)

\* number of matches whose ordinal lies in the window s .. s + n - 1
Hits(ordinals, s, n) ==
    Cardinality({k \in 1..Len(ordinals) : ordinals[k] \in s..(s + n - 1)})

\* every window start from 1 through len(buffer) - n, len(buffer) = max + 1
AllStarts(ordinals, n) == 1..(SeqMax(ordinals) + 1 - n)

MaxHits(ordinals, n) == SetMax({Hits(ordinals, s, n) : s \in AllStarts(ordinals, n)})

\* the window starts whose window holds the greatest number of matches
HeaviestStarts(ordinals, n) ==
    {s \in AllStarts(ordinals, n) : Hits(ordinals, s, n) = MaxHits(ordinals, n)}

SetMin(S) == CHOOSE x \in S : \A y \in S : x <= y

\* C1: for matches of one video, findHeavyRange returns a start index whose
\* window holds the greatest number of matched ordinals among all the window
\* starts 1 .. len(buffer) - windowLength, the window that ends at the
\* greatest ordinal included.
C1_HeaviestOfAllWindows ==
    (Called /\ OneVideo /\ AllStarts(TheOrdinals, interval) # {})
        => /\ outcome.status = "returned"
           /\ outcome.startIndex \in HeaviestStarts(TheOrdinals, interval)

\* the number of matches of a video
MatchCount(v) == Len(FramesOf(videoMatches, v))

\* the first video, in match order, among those with the most matches
FirstMostMatched ==
    LET keys == FrameKeys(videoMatches)
        best == SetMax({MatchCount(v) : v \in MatchVideos})
        k == SetMin({j \in 1..Len(keys) : MatchCount(keys[j]) = best})
    IN  keys[k]

\* C2: when the matches span two or more videos, findHeavyRange completes
\* and selects the video with the most matches, the first one met in the
\* match sequence among those with the highest count.
C2_MostMatchedVideo ==
    (Called /\ Cardinality(MatchVideos) >= 2)
        => /\ outcome.status = "returned"
           /\ outcome.videoName = FirstMostMatched \o sMov

\* C3: a call with an empty match list ends in a failure and never in a
\* returned range.
C3_EmptyFails ==
    (Called /\ videoMatches = <<>>)
        => /\ outcome.status # "returned"
           /\ outcome.status \in {"ValueError", "TypeError"}

C3_Witness == videoMatches = <<>> /\ outcome.status = "ValueError"

\* C4: when two or more windows have the same greatest sum, the call returns
\* the one with the lowest start index.
C4_LowestStartOnTie ==
    (Called /\ OneVideo /\ Cardinality(HeaviestStarts(TheOrdinals, interval)) >= 2)
        => /\ outcome.status = "returned"
           /\ outcome.startIndex = SetMin(HeaviestStarts(TheOrdinals, interval))

C4_Witness ==
    /\ Called /\ OneVideo
    /\ Cardinality(HeaviestStarts(TheOrdinals, interval)) >= 2
    /\ outcome.status = "returned"
    /\ outcome.startIndex > 1
    /\ outcome.startIndex = SetMin(HeaviestStarts(TheOrdinals, interval))

\* C5: for the ordinals 1,1,2,3,3,3,4,10 of the video clip and window length
\* 4, the buffer is [_,2,1,3,1,0,0,0,0,0,1], the window starting at 1 sums
\* to 7 and the call returns clip.MOV with start 1 and end 5.
C5_Scenario ==
    (Called /\ videoMatches = ScenarioMatches /\ interval = 4)
        => LET ordinals == FramesOf(videoMatches, sClip)
               buffer == BufferOf(ordinals, PyMax(ordinals).value)
           IN  /\ ordinals = ScenarioOrdinals
               /\ DOMAIN buffer = 0..10
               /\ [o \in 1..10 |-> buffer[o]] = <<2, 1, 3, 1, 0, 0, 0, 0, 0, 1>>
               /\ SliceSum(buffer, 1, 4) = 7
               /\ outcome = [status |-> "returned", videoName |-> sClip \o sMov,
                             startIndex |-> 1, endIndex |-> 5]

C5_Witness ==
    /\ videoMatches = ScenarioMatches /\ interval = 4
    /\ outcome.status = "returned"

\* C6: when every matched ordinal of the selected video lies in
\* 1 .. windowLength, the call returns the first window, start 1 and end
\* 1 + windowLength.
C6_FirstWindowWhenSmall ==
    (Called /\ OneVideo
       /\ \A k \in 1..Len(TheOrdinals) : TheOrdinals[k] \in 1..interval)
        => /\ outcome.status = "returned"
           /\ outcome.startIndex = 1
           /\ outcome.endIndex = 1 + interval

-----------------------------------------------------------------------------
(* Properties of the indexing runs *)

\* a task whose embedding request is sent in this step
Enters(f) == /\ f \in DOMAIN taskPc /\ f \in DOMAIN taskPc'
             /\ taskPc[f] # "inflight" /\ taskPc'[f] = "inflight"

\* a task whose embedding request ends in this step
Leaves(f) == /\ f \in DOMAIN taskPc /\ f \in DOMAIN taskPc'
             /\ taskPc[f] = "inflight" /\ taskPc'[f] # "inflight"

\* C7: during a bulk indexing run at most 4 embedding requests are in flight
\* in every reachable state, and a request is sent only in a step that starts
\* with fewer than 4 requests in flight or in which a request in flight ends
\* and frees its slot.
C7_AtMostFourInFlight ==
    /\ [](Cardinality(InFlight) <= 4)
    /\ [][\A f \in WorkspaceFiles :
            Enters(f) => \/ Cardinality(InFlight) < 4
                         \/ \E g \in WorkspaceFiles : Leaves(g)]_vars

C7_Witness == Cardinality(InFlight) = 4 /\ Len(waiters) > 0

RunEnded == mainPc \in {"done", "aborted"}

\* C8: when the embedding request or the upsert of one artifact fails, the
\* siblings are not cancelled: every other artifact is embedded and upserted
\* before the run ends.
C8_SiblingsComplete ==
    (RunEnded /\ Failed # {})
        => \A f \in DOMAIN taskPc : f \notin Failed => taskPc[f] = "done"

\* the artifacts of the family an indexer is meant to index
FamilyFiles(kind) == IF kind = "video" THEN FrameFiles ELSE SegmentFiles

\* C9: after a run in which no external call fails, the index holds exactly
\* one entry per artifact of the indexed family, keyed by the artifact path.
C9_OneEntryPerArtifact ==
    (mainPc = "done" /\ failures = 0)
        => /\ EntryIds = FamilyFiles(indexer)
           /\ EntryCount = Cardinality(FamilyFiles(indexer))

\* C10: with no failing external call, the index has the same ids and the
\* same entry count after a later run as after the first run.
C10_RerunSameIndex ==
    (mainPc = "done" /\ run >= 2 /\ failures = 0 /\ firstRun.taken)
        => /\ EntryIds = firstRun.ids
           /\ EntryCount = firstRun.count

C10_Witness ==
    /\ mainPc = "done" /\ run = 2 /\ failures = 0 /\ firstRun.taken
    /\ indexer = "video"
    /\ EntryIds = FrameFiles
    /\ EntryCount = NumFrames

\* C11: over the sequential runs, create_index is requested only in a state
\* in which the index does not exist, hence at most once; a run that finds
\* the index present creates nothing and goes on to the upserts.
C11_CreateOnlyWhenAbsent ==
    /\ [](created <= 1)
    /\ [][created' # created => (~indexExists /\ created' = created + 1)]_vars
    /\ [][(mainPc = "start" /\ indexExists)
            => (created' = created /\ mainPc' \in {"start", "indexed"})]_vars

C11_Witness ==
    /\ run = 2 /\ created = 1 /\ indexer = "video"
    /\ mainPc = "gather"
    /\ TasksAt({"done"}) # {}

\* C12: the first readiness poll of a run happens only after the upsert of
\* every discovered artifact has been made, and the run returns normally
\* only after a poll that reported the index ready.
C12_PollAfterUpserts ==
    /\ lastPoll # "none"
         => /\ DOMAIN taskPc = RGlobTxt(ContextFolder(indexer))
            /\ \A f \in DOMAIN taskPc : taskPc[f] = "done" /\ f \in EntryIds
    /\ mainPc = "done" => (lastPoll = "ready" /\ indexReady)

C12_Witness ==
    /\ indexer = "video" /\ mainPc = "poll" /\ lastPoll = "notready"
    /\ DOMAIN taskPc = FrameFiles
    /\ EntryIds = FrameFiles

-----------------------------------------------------------------------------
(* Properties of the identifier codec *)

\* C13: every id of the two artifact families (frame_<4 digits>.txt and
\* <start>-<end>.json) decodes, as findHeavyRange decodes it, to a
\* non-negative ordinal, and encoding the decoded pair gives the id back.
C13_RoundTrip ==
    outcome.status \in {"ValueError", "decoded", "encoded"}
        => /\ outcome.status # "ValueError"
           /\ outcome.ordinal >= 0
           /\ outcome.status = "encoded" => outcome.id = videoMatches[1]

\* C14: when every embedding request and upsert ends and the backend comes
\* to report the index ready and keeps doing so, every indexing run ends,
\* and a run that polls a ready index returns.
C14_RunTerminates ==
    /\ (mainPc \in {"start", "indexed", "gather", "poll"}) ~> RunEnded
    /\ (mainPc = "poll" /\ indexReady) ~> (mainPc = "done")

C14_Witness ==
    /\ indexer = "video" /\ run = 1 /\ mainPc = "done" /\ lastPoll = "ready"
    /\ EntryIds = FrameFiles

-----------------------------------------------------------------------------
(* Further properties of findHeavyRange *)

\* C15: on every non-empty match list on which findHeavyRange returns, the
\* returned start is at least 1 and the returned end is start + windowLength.
C15_StartAtLeastOne ==
    (Called /\ Len(videoMatches) > 0 /\ outcome.status = "returned")
        => /\ outcome.startIndex >= 1
           /\ outcome.endIndex = outcome.startIndex + interval

\* the match list taken in the order perm
Permuted(matches, perm) == [k \in 1..Len(matches) |-> matches[perm[k]]]

\* an order of the positions that lists the ordinals from least to greatest
AscendingOrder(ordinals) ==
    CHOOSE perm \in Permutations(1..Len(ordinals)) :
        \A j, k \in 1..Len(ordinals) :
            j < k => ordinals[perm[j]] <= ordinals[perm[k]]

\* C19: for matches of one video, the call gives the result it gives on the
\* same matches listed by ascending ordinal (the same video, start and end,
\* or the same error); all the permutations of a match list share that
\* listing, so the result depends on the multiset of ordinals only.
C19_OrderIndependent ==
    (Called /\ OneVideo)
        => findHeavyRange(Permuted(videoMatches, AscendingOrder(TheOrdinals)),
                          interval) = outcome

C19_Witness ==
    /\ Called /\ OneVideo
    /\ outcome.status = "returned" /\ outcome.startIndex >= 1
    /\ \E j, k \in 1..Len(TheOrdinals) : j < k /\ TheOrdinals[j] > TheOrdinals[k]

-----------------------------------------------------------------------------
(* Properties of the stored entries *)

IsTranscript(id) == EndsWith(id, sJson)

\* C16: the entry written for a transcript artifact carries the summary that
\* was embedded and the raw text of the artifact; the entry written for a
\* frame artifact carries the description that was embedded.
C16_MetadataComplete ==
    \A e \in BagToSet(vectors) :
        IF IsTranscript(e.id)
        THEN /\ {"summary", "raw_text"} \subseteq DOMAIN e.metadata
             /\ e.metadata.summary = FileContent(e.id).summary
             /\ e.metadata.raw_text = FileContent(e.id).raw_text
        ELSE /\ "description" \in DOMAIN e.metadata
             /\ e.metadata.description = FileContent(e.id).description

-----------------------------------------------------------------------------
(* Properties of the concurrency gates and of the describer runs *)

\* a request of the indexer ends in failure
IndexRequestFails(f) ==
    /\ f \in DOMAIN taskPc /\ taskPc[f] = "inflight"
    /\ f \in DOMAIN taskPc' /\ taskPc'[f] \in {"embedFailed", "upsertFailed"}

\* a request of the describer ends in failure
ChatRequestFails(f) ==
    /\ f \in DOMAIN descPc /\ descPc[f] = "inflight"
    /\ f \in DOMAIN descPc' /\ descPc'[f] = "failed"

\* C17: in every state of an indexing run and of a description run the free
\* slots and the in-flight requests add up to the limit of the gate, a task
\* waits only while every slot is held by an in-flight request, and a
\* request that fails hands its slot to the first waiting task, or back to
\* the gate when nobody waits.
C17_NoSlotLeak ==
    /\ [](mainPc # "idle" =>
             /\ semValue + Cardinality(InFlight) = SemaphoreSlots
             /\ Len(waiters) > 0 => Cardinality(InFlight) = SemaphoreSlots)
    /\ [](genPc = "gather" =>
             /\ descSem + Cardinality(DescInFlight) = DescribeSlots
             /\ Len(descWaiters) > 0 => Cardinality(DescInFlight) = DescribeSlots)
    /\ [][\A f \in WorkspaceFiles : IndexRequestFails(f) =>
             IF Len(waiters) > 0
             THEN taskPc'[Head(waiters)] = "inflight" /\ waiters' = Tail(waiters)
             ELSE semValue' = semValue + 1]_vars
    /\ [][\A f \in DOMAIN descPc : ChatRequestFails(f) =>
             IF Len(descWaiters) > 0
             THEN /\ descPc'[Head(descWaiters)] = "inflight"
                  /\ descWaiters' = Tail(descWaiters)
             ELSE descSem' = descSem + 1]_vars

\* a failed embedding request has passed its slot to the task that waited
C17_Witness ==
    /\ indexer = "video" /\ mainPc = "gather"
    /\ Failed # {}
    /\ TasksAt({"done", "open", "waiting"}) = {}
    /\ Cardinality(InFlight) = NumFrames - 1

\* the keyframes that were extracted from a source video
ExtractedFrames(stem) == GlobJpg(keyframeDirs, stem)

\* C18: when a run of the describer completes without error, after whatever
\* earlier runs, every extracted keyframe of every source video has its
\* description file in video_context/<stem>/.
C18_AllDescribedOnCompletion ==
    genPc = "done" =>
        \A k \in 1..Len(SourceStems) :
            \A frame \in ExtractedFrames(SourceStems[k]) :
                DescriptionFile(ContextDir(SourceStems[k]), frame) \in descriptions

=============================================================================
